---- MODULE Spec2Model ----
(***************************************************************************)
(* Memento: the in-browser inverted index (extension-v1) with its message  *)
(* handlers, the capture -> pages directory -> daemon reconciliation loop, *)
(* and the capturing extension's interaction data and daemon search.       *)
(* Texts are sequences of one-character strings, URLs are sequences of URL *)
(* pieces, scores are exact multiples of 1/ScoreUnit.                      *)
(***************************************************************************)
EXTENDS Integers, Sequences, FiniteSets, TLC

VARIABLES
    \* ---- extension-v1: InvertedIndex held by the background script
    initialized,   \* InvertedIndex.initialized
    index,         \* term -> array of docId
    documents,     \* docId -> [url, title, content, timestamp]
    embeddings,    \* docId -> vector, as the object's entries in insertion order
    now,           \* the last value Date.now() returned
    calls,         \* the addDocument calls begun so far, in order
    pending,       \* the calls suspended at the await, or waiting for their .then
    stored,        \* chrome.storage.local's indexData
    response,      \* the response the background script sent last
    searches,      \* the number of search requests handled
    journey,       \* JourneyTracker: nodes, edges, root and current
    visits,        \* the urls of the trackVisit calls so far, in order
    startup,       \* how far initializeServices has come
    storedJourney, \* journeyData in chrome.storage.local
    \* ---- capture and daemon
    clock,         \* the capture clock (new Date() of generateFilename)
    downloads,     \* files handed to chrome.downloads, not yet on disk
    metaFiles,     \* pagesDir: metadata file name -> PageMetadata
    contentFiles,  \* pagesDir: the content files present
    bleve,         \* the daemon's search index: docID -> PageDocument
    listing,       \* the metadata files ReadDir gave the running tick, in order
    cursor,        \* the place in listing of the file the tick visits next
    ticking,       \* whether indexExistingFiles is running
    indexCall,     \* the docID the last step passed to index.Index, or NoBase
    tickLog,       \* per file the running tick visited: what happened to it
    skippedMissing, \* the files some tick skipped for their missing content
    \* ---- the capturing extension's background script
    pageInteractions, \* tabId -> the interaction data of the tab's page
    pendingCaptures,  \* tabId -> whether the tab's capture timeout is still armed
    reportLog,        \* the 'updateInteractionData' messages handled, in order
    searchReply,      \* what the 'search' handler answered last
    tracker,          \* tabId -> the viewport tracker running in the tab's page
    inbox,            \* the trackers' messages the background has yet to handle
    tabInfo,          \* tabId -> the tab's page, and what has happened to it
    captureRuns,      \* the captureAndSavePage calls and how far each has come
    captureLog,       \* what capturePage has returned, in order
    recentCaptures    \* recentCaptures in chrome.storage.local

idxVars == <<initialized, index, documents, embeddings, now, calls, pending,
             stored, response, searches, journey, visits, startup, storedJourney>>
daemonVars == <<clock, downloads, metaFiles, contentFiles, bleve, listing,
                cursor, ticking, indexCall, tickLog, skippedMissing>>
capVars == <<tabInfo, captureRuns, captureLog, recentCaptures>>
extVars == <<pageInteractions, pendingCaptures, reportLog, searchReply,
             tracker, inbox, capVars>>
vars == <<idxVars, daemonVars, extVars>>

None == "none"

----------------------------------------------------------------------------
(* Bounds of the model *)

\* addDocument calls (indexing requests) in one behaviour
MaxAdds == 2
\* search requests in one behaviour
MaxSearches == 1
\* page captures in one behaviour
MaxCaptures == 2

\* pages one tab shows in one behaviour
MaxPages == 2

\* captures kept in recentCaptures
RecentLimit == 50
\* 'updateInteractionData' messages in one behaviour
MaxReports == 2
\* trackVisit calls in one behaviour of the journey alone
MaxVisits == 4
\* samples of a page's viewport tracker in one behaviour
MaxSamples == 6
\* scroll and mouse events a page's tracker counts in one behaviour
MaxEvents == 3

----------------------------------------------------------------------------
(* Generic helpers *)

Range(s) == {s[i] : i \in DOMAIN s}

Put(f, k, v) == [x \in (DOMAIN f) \cup {k} |-> IF x = k THEN v ELSE f[x]]

Min(a, b) == IF a <= b THEN a ELSE b

\* Array.prototype.includes
Includes(list, x) == \E i \in DOMAIN list : list[i] = x

----------------------------------------------------------------------------
(* Texts *)

TextHiYoHi == <<"h", "i", " ", "y", "o", " ", "h", "i">>
TextYo     == <<"Y", "o", ".">>
TitleA     == <<"A">>
TitleOk    == <<"o", "k">>
QueryHi    == <<"h", "i">>
QueryYoOk  == <<"y", "o", " ", "o", "k">>
QueryZz    == <<"z", "z">>
\* a query that repeats a token
QueryHiHiZz == <<"h", "i", " ", "h", "i", " ", "z", "z">>
\* a query without a token
QueryEmpty == <<>>
\* a word that names a property every plain object inherits
WordConstructor == <<"c", "o", "n", "s", "t", "r", "u", "c", "t", "o", "r">>
TextHiConstructor == <<"h", "i", " ">> \o WordConstructor

\* what a page sends to be indexed
Pages == {[content |-> TextHiYoHi, title |-> TitleA],
          [content |-> TextYo, title |-> TitleOk]}

\* a page whose text holds the word "constructor"
PageConstructor == [content |-> TextHiConstructor, title |-> TitleOk]

Queries == {QueryHi, QueryYoOk, TextYo, QueryZz, QueryHiHiZz, QueryEmpty,
            WordConstructor}

\* String.prototype.toLowerCase, on the alphabet of the model
toLowerCase(c) ==
    CASE c = "A" -> "a"
      [] c = "H" -> "h"
      [] c = "Y" -> "y"
      [] OTHER -> c

\* \w of the regular expression
IsWordChar(c) ==
    c \in {"a", "c", "h", "i", "k", "n", "o", "r", "s", "t", "u", "y", "z",
           "A", "H", "Y", "_", "0", "1"}

\* \s of the regular expression
IsSpace(c) == c \in {" "}

\* charCodeAt
charCode(c) ==
    CASE c = " " -> 32
      [] c = "." -> 46
      [] c = "0" -> 48
      [] c = "1" -> 49
      [] c = "A" -> 65
      [] c = "H" -> 72
      [] c = "Y" -> 89
      [] c = "_" -> 95
      [] c = "a" -> 97
      [] c = "c" -> 99
      [] c = "h" -> 104
      [] c = "i" -> 105
      [] c = "k" -> 107
      [] c = "n" -> 110
      [] c = "o" -> 111
      [] c = "r" -> 114
      [] c = "s" -> 115
      [] c = "t" -> 116
      [] c = "u" -> 117
      [] c = "y" -> 121
      [] c = "z" -> 122

\* text.split(/\s+/): the pieces between runs of whitespace, empty pieces at
\* the ends included
RECURSIVE splitFrom(_, _, _)
splitFrom(s, i, cur) ==
    IF i > Len(s) THEN <<cur>>
    ELSE IF IsSpace(s[i])
         THEN IF i > 1 /\ IsSpace(s[i - 1])
              THEN splitFrom(s, i + 1, cur)
              ELSE <<cur>> \o splitFrom(s, i + 1, <<>>)
         ELSE splitFrom(s, i + 1, Append(cur, s[i]))

\* InvertedIndex.tokenize
tokenize(text) ==
    LET lower == [i \in DOMAIN text |-> toLowerCase(text[i])]
        clean == [i \in DOMAIN lower |->
                     IF IsWordChar(lower[i]) \/ IsSpace(lower[i])
                     THEN lower[i] ELSE " "]
    IN SelectSeq(splitFrom(clean, 1, <<>>), LAMBDA token : Len(token) > 1)

----------------------------------------------------------------------------
(* URLs: a URL is the sequence of its pieces *)

UrlA    == <<"https://", "a.com">>
UrlAws  == <<"http://", "www.", "a.com", "/">>
UrlWwA  == <<"https://", "www.", "www.", "a.com">>
UrlB    == <<"http://", "b.com">>

Urls == {UrlA, UrlAws, UrlWwA, UrlB}

Schemes == {"http://", "https://"}

\* .replace(/^https?:\/\//, '')
stripScheme(url) ==
    IF Len(url) > 0 /\ Head(url) \in Schemes THEN Tail(url) ELSE url

\* .replace(/^www\./, '')
stripWww(url) ==
    IF Len(url) > 0 /\ Head(url) = "www." THEN Tail(url) ELSE url

\* .replace(/\/$/, '')
stripSlash(url) ==
    IF Len(url) > 0 /\ url[Len(url)] = "/" THEN SubSeq(url, 1, Len(url) - 1) ELSE url

normalizeUrlKeepWww(url) == stripSlash(stripScheme(url))

\* InvertedIndex.normalizeUrl
normalizeUrl(url) == stripSlash(stripWww(stripScheme(url)))

DocIds == {normalizeUrl(u) : u \in Urls}

----------------------------------------------------------------------------
(* Embeddings *)

\* the length of the vector generateEmbedding returns
EmbeddingDim == 10

\* hash = ((hash << 5) - hash) + charCode; hash = hash & hash, on 32 bits.
\* The hash is kept as two unsigned 16-bit halves, <<high, low>>.
RECURSIVE hashFrom(_, _, _)
hashFrom(text, i, h) ==
    IF i > Len(text) THEN h
    ELSE LET lo == 31 * h[2] + charCode(text[i])
             hi == 31 * h[1] + (lo \div 65536)
         IN hashFrom(text, i + 1, <<hi % 65536, lo % 65536>>)

\* the 32-bit signed value of the halves
toInt32(h) ==
    IF h[1] >= 32768 THEN (h[1] - 65536) * 65536 + h[2] ELSE h[1] * 65536 + h[2]

embeddingOfLength(text) ==
    [hash |-> toInt32(hashFrom(text, 1, <<0, 0>>)), dim |-> Len(text)]

\* EmbeddingGenerator.generateEmbedding: vector[i] = sin(hash * (i + 1)) * 0.5 + 0.5
\* is a function of the hash alone; the vector is kept as its hash and length.
generateEmbedding(text) ==
    [hash |-> toInt32(hashFrom(text, 1, <<0, 0>>)), dim |-> EmbeddingDim]

\* 1.0 in score units: every score is an exact multiple of 1/ScoreUnit
ScoreUnit == 120

\* the similarities the model lets two different vectors have
SimValues == {20, 60, 100}

\* InvertedIndex.cosineSimilarity.  The cosine of two vectors of sines is not
\* computed: for vectors of different hashes it is the value simOf gives the
\* stored vector's hash, for equal vectors it is 1.
cosineSimilarity(vec1, vec2, simOf) ==
    IF vec1.hash = vec2.hash THEN ScoreUnit ELSE simOf[vec2.hash]

\* if (vec1.length !== vec2.length) throw new Error('Vectors must have the
\* same dimensions')
differentDimensions(vec1, vec2) == vec1.dim # vec2.dim

----------------------------------------------------------------------------
(* InvertedIndex: addDocument *)

EmptyIndexData == [index |-> <<>>, documents |-> <<>>, embeddings |-> <<>>]

PositionOf(entries, docId) ==
    CHOOSE i \in DOMAIN entries : entries[i].id = docId

\* this.embeddings[docId] = embedding: a new key goes last, an old key keeps
\* its place
dropEmbedding(entries, docId, vec) == entries

\* this.embeddings[docId] = embedding: a new key goes last, an old key keeps
\* its place
setEmbedding(entries, docId, vec) ==
    IF \E i \in DOMAIN entries : entries[i].id = docId
    THEN [entries EXCEPT ![PositionOf(entries, docId)] = [id |-> docId, vec |-> vec]]
    ELSE Append(entries, [id |-> docId, vec |-> vec])

\* the lower-case words that name a property of Object.prototype: on the
\* plain object this.index, index[word] is that property unless the object
\* has a key of its own by the name
ObjectPrototypeKeys ==
    {WordConstructor, <<"_", "_", "p", "r", "o", "t", "o", "_", "_">>}

\* this.index[token] is an inherited property, not a posting list
inheritedKey(idx, token) == token \notin DOMAIN idx /\ token \in ObjectPrototypeKeys

pushAlways(list, docId) == Append(list, docId)

\* if (!this.index[token].includes(docId)) this.index[token].push(docId)
pushPosting(list, docId) ==
    IF Includes(list, docId) THEN list ELSE Append(list, docId)

\* for (const token of tokens) { ... }: an inherited property is truthy and
\* has no includes, the call throws and the loop ends there
RECURSIVE indexTokens(_, _, _)
indexTokens(idx, tokens, docId) ==
    IF tokens = <<>> THEN idx
    ELSE IF inheritedKey(idx, Head(tokens)) THEN idx
    ELSE LET token == Head(tokens)
             list == IF token \in DOMAIN idx THEN idx[token] ELSE <<>>
         IN indexTokens(Put(idx, token, pushPosting(list, docId)), Tail(tokens), docId)

\* addDocument up to its await: the document is stored
addDocumentStore(data, url, content, title, time) ==
    [data EXCEPT !.documents =
        Put(data.documents, normalizeUrl(url),
            [url |-> url, title |-> title, content |-> content, timestamp |-> time])]

\* addDocument after its await: the embedding is stored and the tokens indexed
addDocumentIndex(data, url, content, title) ==
    [data EXCEPT
        !.embeddings = setEmbedding(data.embeddings, normalizeUrl(url),
                                    generateEmbedding(content)),
        !.index = indexTokens(data.index, tokenize(content \o <<" ">> \o title),
                              normalizeUrl(url))]

\* whether the loop over the tokens throws (the promise is rejected)
addDocumentThrows(data, content, title) ==
    \E token \in Range(tokenize(content \o <<" ">> \o title)) :
        inheritedKey(data.index, token)

\* a whole addDocument call that nothing interleaves with
addDocument(data, url, content, title, time) ==
    addDocumentIndex(addDocumentStore(data, url, content, title, time),
                     url, content, title)

\* InvertedIndex.getIndex
getIndex == [index |-> index, documents |-> documents, embeddings |-> embeddings]

----------------------------------------------------------------------------
(* InvertedIndex: search *)

\* the modes search knows
Modes == {"text", "vector", "hybrid"}

\* the values of the popup's search-type select
PopupModes == {"hybrid", "semantic", "keyword"}

\* the limit the 'search' handler passes
HandlerLimit == 10

Limits == {1, HandlerLimit}

\* docScores[docId] = (docScores[docId] || 0) + 1, the object's entries kept in
\* insertion order
bumpScore(scores, docId) ==
    IF \E i \in DOMAIN scores : scores[i].id = docId
    THEN [scores EXCEPT ![PositionOf(scores, docId)].n = @ + 1]
    ELSE Append(scores, [id |-> docId, n |-> 1])

\* for (const docId of docs) { ... }
RECURSIVE scoreDocs(_, _)
scoreDocs(scores, docs) ==
    IF docs = <<>> THEN scores
    ELSE scoreDocs(bumpScore(scores, Head(docs)), Tail(docs))

\* for (const token of tokens) { const docs = this.index[token] || []; ... }
RECURSIVE scoreTokens(_, _, _)
scoreTokens(idx, tokens, scores) ==
    IF tokens = <<>> THEN scores
    ELSE LET token == Head(tokens)
             docs == IF token \in DOMAIN idx THEN idx[token] ELSE <<>>
         IN scoreTokens(idx, Tail(tokens), scoreDocs(scores, docs))

\* whether search throws: in the text part, this.index[token] || [] is an
\* inherited property for a token of the query, which for...of cannot iterate
lexicalPassThrows(data, query, searchType) ==
    /\ searchType \in {"text", "hybrid"}
    /\ \E token \in Range(tokenize(query)) : inheritedKey(data.index, token)

\* the vector pass throws at the first stored vector whose length is not the
\* query vector's
dimensionMismatch(data, query, searchType) ==
    /\ searchType \in {"vector", "hybrid"}
    /\ \E i \in DOMAIN data.embeddings :
          differentDimensions(generateEmbedding(query), data.embeddings[i].vec)

\* whether search throws, in either pass
searchThrows(data, query, searchType) ==
    lexicalPassThrows(data, query, searchType) \/ dimensionMismatch(data, query, searchType)

\* doc.content.substring(0, 200) + '...'
snippet(content) == SubSeq(content, 1, Min(200, Len(content))) \o <<".", ".", ".">>

resultOf(doc, score) ==
    [url |-> doc.url, title |-> doc.title, content |-> snippet(doc.content),
     score |-> score, timestamp |-> doc.timestamp]

rawScore(n, ntokens) == n * ScoreUnit

\* score / tokens.length
lexicalScore(n, ntokens) == (n * ScoreUnit) \div ntokens

\* for (const [docId, score] of Object.entries(docScores)) { ... }
RECURSIVE textResults(_, _, _)
textResults(data, scores, ntokens) ==
    IF scores = <<>> THEN <<>>
    ELSE LET e == Head(scores)
             rest == textResults(data, Tail(scores), ntokens)
         IN IF e.id \in DOMAIN data.documents
            THEN <<resultOf(data.documents[e.id], lexicalScore(e.n, ntokens))>> \o rest
            ELSE rest

combineSum(score, similarity) == score + similarity

\* existingResult.score = (existingResult.score + similarity) / 2
combine(score, similarity) == (score + similarity) \div 2

\* results.find(r => r.url === doc.url), as the position found or 0
findByUrl(results, url) ==
    IF \E i \in DOMAIN results : results[i].url = url
    THEN CHOOSE i \in DOMAIN results :
            /\ results[i].url = url
            /\ \A j \in 1..(i - 1) : results[j].url # url
    ELSE 0

\* for (const [docId, embedding] of Object.entries(this.embeddings)) { ... }
RECURSIVE vectorResults(_, _, _, _, _)
vectorResults(data, entries, queryEmbedding, simOf, results) ==
    IF entries = <<>> THEN results
    ELSE LET e == Head(entries)
             similarity == cosineSimilarity(queryEmbedding, e.vec, simOf)
             doc == data.documents[e.id]
             at == findByUrl(results, doc.url)
         IN vectorResults(data, Tail(entries), queryEmbedding, simOf,
                IF at # 0
                THEN [results EXCEPT ![at].score = combine(@, similarity)]
                ELSE Append(results, resultOf(doc, similarity)))

\* the place of r in a list sorted by (a, b) => b.score - a.score: behind
\* every result the comparator does not put after it (Array.prototype.sort is
\* stable)
RECURSIVE insertSorted(_, _)
insertSorted(sorted, r) ==
    IF sorted = <<>> THEN <<r>>
    ELSE IF Head(sorted).score >= r.score
         THEN <<Head(sorted)>> \o insertSorted(Tail(sorted), r)
         ELSE <<r>> \o sorted

RECURSIVE sortInto(_, _)
sortInto(sorted, results) ==
    IF results = <<>> THEN sorted
    ELSE sortInto(insertSorted(sorted, Head(results)), Tail(results))

keepOrder(results) == results

\* results.sort((a, b) => b.score - a.score)
sortByScore(results) == sortInto(<<>>, results)

sliceAll(results, limit) == results

\* results.slice(0, limit)
slice(results, limit) == SubSeq(results, 1, Min(limit, Len(results)))

\* the candidates of a search, before the sort
candidates(data, query, searchType, simOf) ==
    LET tokens == tokenize(query)
        text == IF searchType \in {"text", "hybrid"}
                THEN textResults(data, scoreTokens(data.index, tokens, <<>>), Len(tokens))
                ELSE <<>>
    IN IF searchType \in {"vector", "hybrid"}
       THEN vectorResults(data, data.embeddings, generateEmbedding(query), simOf, text)
       ELSE text

\* InvertedIndex.search
search(data, query, searchType, limit, simOf) ==
    slice(sortByScore(candidates(data, query, searchType, simOf)), limit)

----------------------------------------------------------------------------
(* JourneyTracker *)

\* null, for root and current (as falsy as the empty string)
NoUrl == <<>>

\* urls of visited pages, two of them with an underscore inside
JourneyUrls == {<<"p">>, <<"r">>, <<"p", "_", "q">>, <<"q", "_", "r">>}

\* the JourneyTracker the constructor makes; nodes are the entries of
\* this.nodes in insertion order
EmptyJourney == [nodes |-> <<>>, edges |-> <<>>, root |-> NoUrl, current |-> NoUrl]

\* `${this.current}_${url}`
edgeKey(source, target) == source \o <<"_">> \o target

NodeAt(nodes, url) == CHOOSE i \in DOMAIN nodes : nodes[i].url = url

\* this.nodes[url] = { url, title, lastVisited, visitCount: (old || 0) + 1 }:
\* a new key goes last, an old key keeps its place
setNode(nodes, url, title, time) ==
    IF \E i \in DOMAIN nodes : nodes[i].url = url
    THEN [nodes EXCEPT ![NodeAt(nodes, url)] =
             [url |-> url, title |-> title, lastVisited |-> time,
              visitCount |-> @.visitCount + 1]]
    ELSE Append(nodes, [url |-> url, title |-> title, lastVisited |-> time,
                        visitCount |-> 1])

setRootAlways(root, url) == url

\* if (!this.root) this.root = url
setRoot(root, url) == IF root = NoUrl THEN url ELSE root

\* the edge record is made with 0 traversals if there is none under the key,
\* then counted and stamped
traverse(edges, source, target, time) ==
    LET key == edgeKey(source, target)
        edge == IF key \in DOMAIN edges THEN edges[key]
                ELSE [source |-> source, target |-> target, traversals |-> 0,
                      lastTraversed |-> time]
    IN Put(edges, key, [edge EXCEPT !.traversals = @ + 1, !.lastTraversed = time])

\* JourneyTracker.trackVisit
trackVisit(j, url, title, time) ==
    [nodes |-> setNode(j.nodes, url, title, time),
     root |-> setRoot(j.root, url),
     edges |-> IF j.current # NoUrl /\ j.current # url
               THEN traverse(j.edges, j.current, url, time)
               ELSE j.edges,
     current |-> url]

\* the place of node r in a list sorted by (a, b) => b[field] - a[field]
RECURSIVE insertByField(_, _, _)
insertByField(sorted, r, field) ==
    IF sorted = <<>> THEN <<r>>
    ELSE IF Head(sorted)[field] >= r[field]
         THEN <<Head(sorted)>> \o insertByField(Tail(sorted), r, field)
         ELSE <<r>> \o sorted

RECURSIVE sortIntoByField(_, _, _)
sortIntoByField(sorted, list, field) ==
    IF list = <<>> THEN sorted
    ELSE sortIntoByField(insertByField(sorted, Head(list), field), Tail(list), field)

unsortedNodes(nodes, field) == nodes

\* Object.values(this.nodes).sort((a, b) => b[field] - a[field])
sortDescending(nodes, field) == sortIntoByField(<<>>, nodes, field)

\* JourneyTracker.getRecentVisits
getRecentVisits(j, limit) == slice(sortDescending(j.nodes, "lastVisited"), limit)

\* JourneyTracker.getMostVisited
getMostVisited(j, limit) == slice(sortDescending(j.nodes, "visitCount"), limit)

\* the limits the read operations are called with: one, and the default
JourneyLimits == {1, 10}

----------------------------------------------------------------------------
(* Capture: savePageData of the capturing extension *)

\* the pages captured
CaptureUrls == {UrlA, UrlB}

\* url.replace(/[^a-zA-Z0-9]/g, '_'), piece by piece.  The URLs of the model
\* are shorter than the 100 characters substring(0, 100) keeps.
safePiece(piece) ==
    CASE piece = "https://" -> "https___"
      [] piece = "http://" -> "http___"
      [] piece = "www." -> "www_"
      [] piece = "a.com" -> "a_com"
      [] piece = "b.com" -> "b_com"
      [] piece = "/" -> "_"

urlSafe(url) == [i \in DOMAIN url |-> safePiece(url[i])]

\* generateFilename: `${timestamp}_${urlSafe}`
generateFilename(url, time) == <<time, urlSafe(url)>>

fileName(base, ext) == [base |-> base, ext |-> ext]

\* no base name, and the empty file name
NoBase == <<0, <<>>>>
EmptyName == fileName(NoBase, "")

\* the title of a captured page
titleOf(url) == IF url = UrlA THEN TitleA ELSE TitleOk

\* the metadata savePageData writes; htmlFilename is absent (read as the empty
\* name) where the extension saves no HTML
pageMetadata(url, time, base, hasMarkdown, withHtml) ==
    [url |-> url, title |-> titleOf(url), timestamp |-> time,
     htmlFilename |-> IF withHtml THEN fileName(base, "html") ELSE EmptyName,
     mdFilename |-> fileName(base, "md"),
     hasMarkdown |-> hasMarkdown,
     indexed |-> FALSE]

\* savePageData: the files are handed to chrome.downloads.  The conversion to
\* Markdown may fail (hasMarkdown); the extension of src/extension saves the
\* HTML too (withHtml).  Two captures never share an instant.
savePageData(url, hasMarkdown, withHtml) ==
    /\ clock < MaxCaptures
    /\ clock' = clock + 1
    /\ LET base == generateFilename(url, clock')
           meta == pageMetadata(url, clock', base, hasMarkdown, withHtml)
       IN downloads' = downloads
            \cup {[name |-> fileName(base, "json"), meta |-> meta]}
            \cup (IF hasMarkdown THEN {[name |-> fileName(base, "md"), meta |-> meta]} ELSE {})
            \cup (IF withHtml THEN {[name |-> fileName(base, "html"), meta |-> meta]} ELSE {})
    /\ indexCall' = NoBase
    /\ UNCHANGED <<metaFiles, contentFiles, bleve, listing, cursor, ticking, tickLog,
                   skippedMissing>>

\* a capture of a page, seen from the pages directory
Capture(url, hasMarkdown, withHtml) ==
    /\ savePageData(url, hasMarkdown, withHtml)
    /\ UNCHANGED <<idxVars, extVars>>

\* a download completes: the file is in the pages directory
DownloadComplete(d) ==
    /\ d \in downloads
    /\ downloads' = downloads \ {d}
    /\ IF d.name.ext = "json"
       THEN metaFiles' = Put(metaFiles, d.name.base, d.meta) /\ UNCHANGED contentFiles
       ELSE contentFiles' = contentFiles \cup {d.name} /\ UNCHANGED metaFiles
    /\ indexCall' = NoBase
    /\ UNCHANGED <<clock, bleve, listing, cursor, ticking, tickLog, skippedMissing>>
    /\ UNCHANGED <<idxVars, extVars>>

----------------------------------------------------------------------------
(* The daemon: indexExistingFiles and watchForNewFiles *)

\* the pages directory itself: what filepath.Join(pagesDir, "") names
PagesDir == EmptyName

\* ioutil.ReadDir sorts by file name: the names start with the timestamp
RECURSIVE sortedNames(_)
sortedNames(names) ==
    IF names = {} THEN <<>>
    ELSE LET first == CHOOSE n \in names : \A m \in names : n[1] <= m[1]
         IN <<first>> \o sortedNames(names \ {first})

\* what can go wrong on one file, chosen by the environment
Faults == {"none", "metaRead", "metaParse", "contentRead", "index", "write"}

\* Determine which file to index - prefer markdown if available
contentPathOf(meta, present) ==
    LET html == IF meta.htmlFilename = EmptyName THEN PagesDir ELSE meta.htmlFilename
    IN IF meta.hasMarkdown
       THEN IF meta.mdFilename \in present THEN meta.mdFilename ELSE html
       ELSE html

\* os.Stat(contentPath) does not say IsNotExist
pathExists(path, present) == path = PagesDir \/ path \in present

neverSkip(meta) == FALSE

\* if metadata.Indexed { continue }
alreadyIndexed(meta) == meta.indexed

\* what one visit of the loop does to a file, given the fault that hits it
outcomeOf(meta, present, fault) ==
    IF fault = "metaRead" THEN "metaReadError"
    ELSE IF fault = "metaParse" THEN "metaParseError"
    ELSE IF alreadyIndexed(meta) THEN "skipIndexed"
    ELSE IF ~pathExists(contentPathOf(meta, present), present) THEN "contentMissing"
    ELSE IF contentPathOf(meta, present) = PagesDir \/ fault = "contentRead"
         THEN "contentReadError"
    ELSE IF fault = "index" THEN "indexError"
    ELSE IF fault = "write" THEN "writeError"
    ELSE "indexed"

Failures == {"metaReadError", "metaParseError", "contentMissing", "contentReadError",
             "indexError", "writeError"}

\* outcomes in which index.Index(docID, doc) was called and returned nil
IndexedOutcomes == {"writeError", "indexed"}

FlaggedBeforeIndexing == {"indexError", "indexed"}

\* outcomes in which metadata.Indexed = true reached the metadata file: the
\* write follows index.Index's nil
FlaggedOutcomes == {"indexed"}

pageDocument(meta, present) ==
    [url |-> meta.url, title |-> meta.title, content |-> contentPathOf(meta, present),
     time |-> meta.timestamp]

markMissing(meta) == [meta EXCEPT !.indexed = TRUE]

\* log.Printf("Content file not found: %s", contentPath); continue: the
\* metadata stays as it is
onContentMissing(meta) == meta

abortBatch(files, at) == Len(files) + 1

\* continue: the loop goes on with the next file
continueWith(files, at) == at + 1

\* indexExistingFiles starts: ReadDir lists the metadata files, or fails and
\* the call returns
TickStart(readDirOk) ==
    /\ ~ticking
    /\ IF readDirOk
       THEN /\ ticking' = TRUE
            /\ listing' = sortedNames(DOMAIN metaFiles)
            /\ cursor' = 1
            /\ tickLog' = <<>>
       ELSE UNCHANGED <<ticking, listing, cursor, tickLog>>
    /\ indexCall' = NoBase
    /\ UNCHANGED <<clock, downloads, metaFiles, contentFiles, bleve, skippedMissing>>
    /\ UNCHANGED <<idxVars, extVars>>

\* one pass of the loop body, on the file at the cursor
ProcessFile(fault) ==
    /\ ticking
    /\ cursor <= Len(listing)
    /\ LET file == listing[cursor]
           meta == metaFiles[file]
           outcome == outcomeOf(meta, contentFiles, fault)
       IN /\ tickLog' = Put(tickLog, file, outcome)
          /\ indexCall' = IF outcome \in IndexedOutcomes \cup {"indexError"} THEN file ELSE NoBase
          /\ bleve' = IF outcome \in IndexedOutcomes
                      THEN Put(bleve, file, pageDocument(meta, contentFiles))
                      ELSE bleve
          /\ metaFiles' = IF outcome \in FlaggedOutcomes
                          THEN [metaFiles EXCEPT ![file].indexed = TRUE]
                          ELSE IF outcome = "contentMissing"
                          THEN [metaFiles EXCEPT ![file] = onContentMissing(meta)]
                          ELSE metaFiles
          /\ skippedMissing' = IF outcome = "contentMissing"
                               THEN skippedMissing \cup {file}
                               ELSE skippedMissing
          /\ cursor' = IF outcome \in Failures
                       THEN continueWith(listing, cursor)
                       ELSE cursor + 1
    /\ UNCHANGED <<clock, downloads, contentFiles, listing, ticking>>
    /\ UNCHANGED <<idxVars, extVars>>

\* the loop is over: indexExistingFiles returns and watchForNewFiles sleeps
TickEnd ==
    /\ ticking
    /\ cursor > Len(listing)
    /\ ticking' = FALSE
    /\ listing' = <<>>
    /\ cursor' = 1
    /\ tickLog' = <<>>
    /\ indexCall' = NoBase
    /\ UNCHANGED <<clock, downloads, metaFiles, contentFiles, bleve, skippedMissing>>
    /\ UNCHANGED <<idxVars, extVars>>

----------------------------------------------------------------------------
(* The background script of extension-v1: the indexing and search handlers *)

IndexIdle ==
    /\ initialized = TRUE
    /\ index = <<>>
    /\ documents = <<>>
    /\ embeddings = <<>>
    /\ now = 0
    /\ calls = <<>>
    /\ pending = {}
    /\ stored = EmptyIndexData
    /\ response = [kind |-> None]
    /\ searches = 0
    /\ journey = EmptyJourney
    /\ visits = <<>>
    /\ startup = "ready"
    /\ storedJourney = EmptyJourney

\* the messages that ask for a page to be indexed
IndexActions == {"indexData", "index_page"}

\* An indexing request arrives ('indexData' or 'index_page'): the handler calls
\* addDocument, which runs to its await.  Date.now() has not gone back.
AddDocumentBegin(url, page, dt, action) ==
    /\ initialized
    /\ Len(calls) < MaxAdds
    /\ now' = now + dt
    /\ documents' = addDocumentStore(getIndex, url, page.content, page.title, now').documents
    /\ calls' = Append(calls, [url |-> url, content |-> page.content,
                              title |-> page.title, action |-> action])
    /\ pending' = pending \cup {[call |-> Len(calls) + 1, pc |-> "await"]}
    /\ UNCHANGED <<initialized, index, embeddings, stored, response, searches>>
    /\ UNCHANGED <<journey, visits, startup, storedJourney, daemonVars, extVars>>

\* what a handler answered to an indexing request
indexResponse(call, action, ok, saved) ==
    [kind |-> "index", call |-> call, action |-> action, ok |-> ok, saved |-> saved]

\* generateEmbedding's promise is fulfilled: addDocument runs to its end, or
\* to the token at which it throws.  A rejected addDocument is answered with
\* success: false by the 'index_page' handler (its .catch) and not at all by
\* handleMessage, which has no rejection handler.
AddDocumentResume(p) ==
    /\ p \in pending
    /\ p.pc = "await"
    /\ LET c == calls[p.call]
           data == addDocumentIndex(getIndex, c.url, c.content, c.title)
       IN /\ embeddings' = data.embeddings
          /\ index' = data.index
          /\ IF addDocumentThrows(getIndex, c.content, c.title)
             THEN /\ pending' = pending \ {p}
                  /\ response' = IF c.action = "index_page"
                                 THEN indexResponse(p.call, c.action, FALSE, FALSE)
                                 ELSE response
             ELSE /\ pending' = (pending \ {p}) \cup {[p EXCEPT !.pc = "then"]}
                  /\ UNCHANGED response
    /\ UNCHANGED <<initialized, documents, now, calls, stored, searches>>
    /\ UNCHANGED <<journey, visits, startup, storedJourney, daemonVars, extVars>>

\* The handler's continuation, which first tracks the visit in the journey
\* under the request's own url.  saveOk is whether chrome.storage.local.set
\* succeeds (no chrome.runtime.lastError).  handleMessage calls saveData
\* without awaiting it and sends status 'success'; indexPage awaits saveData
\* and its handler sends success: true, or success: false from the .catch.
IndexingDone(p, saveOk) ==
    /\ p \in pending
    /\ p.pc = "then"
    /\ stored' = IF saveOk THEN getIndex ELSE stored
    /\ response' = LET action == calls[p.call].action
                   IN indexResponse(p.call, action,
                                    IF action = "indexData" THEN TRUE ELSE saveOk,
                                    saveOk)
    /\ pending' = pending \ {p}
    /\ journey' = trackVisit(journey, calls[p.call].url, calls[p.call].title, now)
    /\ visits' = Append(visits, calls[p.call].url)
    /\ storedJourney' = IF saveOk THEN journey' ELSE storedJourney
    /\ UNCHANGED <<initialized, index, documents, embeddings, now, calls, searches, startup>>
    /\ UNCHANGED <<daemonVars, extVars>>

\* InvertedIndex.loadIndex: each part of the data that is there (an object,
\* empty or not, is) replaces the part in memory
loadIndex(current, data) ==
    [index |-> data.index, documents |-> data.documents, embeddings |-> data.embeddings]

\* JourneyTracker.loadJourney
loadJourney(current, data) ==
    [nodes |-> data.nodes, edges |-> data.edges, root |-> data.root,
     current |-> data.current]

\* what an earlier session left in storage: one page, indexed and visited
PreviousIndex == addDocument(EmptyIndexData, UrlB, TextYo, TitleOk, 0)
PreviousJourney == trackVisit(EmptyJourney, UrlB, TitleOk, 0)

\* The background script has just run its top level: initializeServices has
\* created the objects and waits for initialize(); the listeners are there.
\* Storage is as the install handler or an earlier session left it.
IndexStarting ==
    /\ initialized = FALSE
    /\ index = <<>>
    /\ documents = <<>>
    /\ embeddings = <<>>
    /\ now = 0
    /\ calls = <<>>
    /\ pending = {}
    /\ response = [kind |-> None]
    /\ searches = 0
    /\ journey = EmptyJourney
    /\ visits = <<>>
    /\ startup = "starting"
    /\ \/ stored = EmptyIndexData /\ storedJourney = EmptyJourney
       \/ stored = PreviousIndex /\ storedJourney = PreviousJourney

\* initializeServices after its awaits: the index is initialised and
\* chrome.storage.local.get is called
ServicesInitialized ==
    /\ startup = "starting"
    /\ initialized' = TRUE
    /\ startup' = "loading"
    /\ UNCHANGED <<index, documents, embeddings, now, calls, pending, stored, response,
                   searches, journey, visits, storedJourney>>
    /\ UNCHANGED <<daemonVars, extVars>>

\* the callback of the storage get: loadIndex and loadJourney
LoadStoredData ==
    /\ startup = "loading"
    /\ startup' = "ready"
    /\ index' = loadIndex(getIndex, stored).index
    /\ documents' = loadIndex(getIndex, stored).documents
    /\ embeddings' = loadIndex(getIndex, stored).embeddings
    /\ journey' = loadJourney(journey, storedJourney)
    /\ UNCHANGED <<initialized, now, calls, pending, stored, response, searches, visits,
                   storedJourney>>
    /\ UNCHANGED <<daemonVars, extVars>>

\* An indexing request arrives before the index is initialised: addDocument
\* rejects at once.  The 'index_page' handler answers from its .catch;
\* handleMessage has no rejection handler and never answers.
AddDocumentRejected(url, page, action) ==
    /\ ~initialized
    /\ Len(calls) < MaxAdds
    /\ calls' = Append(calls, [url |-> url, content |-> page.content,
                              title |-> page.title, action |-> action])
    /\ response' = IF action = "index_page"
                   THEN indexResponse(Len(calls) + 1, action, FALSE, FALSE)
                   ELSE response
    /\ UNCHANGED <<initialized, index, documents, embeddings, now, pending, stored,
                   searches, journey, visits, startup, storedJourney>>
    /\ UNCHANGED <<daemonVars, extVars>>

\* the hashes of the vectors a search of data meets, other than the query's
OtherHashes(data, query) ==
    {data.embeddings[i].vec.hash : i \in DOMAIN data.embeddings}
        \ {generateEmbedding(query).hash}

\* The 'search' handler: a temporary index loads the stored snapshot, searches
\* it and the results are sent.
Search(query, searchType, limit) ==
    /\ searches < MaxSearches
    /\ searches' = searches + 1
    /\ \E simOf \in [IF searchType \in {"vector", "hybrid"}
                     THEN OtherHashes(stored, query) ELSE {} -> SimValues] :
          LET threw == stored # EmptyIndexData /\ searchThrows(stored, query, searchType)
          IN response' = [kind |-> "search", query |-> query, searchType |-> searchType,
                          limit |-> limit, simOf |-> simOf, error |-> threw,
                          results |-> IF threw THEN <<>>
                                      ELSE search(stored, query, searchType, limit, simOf)]
    /\ UNCHANGED <<initialized, index, documents, embeddings, now, calls, pending, stored>>
    /\ UNCHANGED <<journey, visits, startup, storedJourney, daemonVars, extVars>>

DaemonIdle ==
    /\ clock = 0
    /\ downloads = {}
    /\ metaFiles = <<>>
    /\ contentFiles = {}
    /\ bleve = <<>>
    /\ listing = <<>>
    /\ cursor = 1
    /\ ticking = FALSE
    /\ indexCall = NoBase
    /\ tickLog = <<>>
    /\ skippedMissing = {}

\* A page visit is tracked at a time that has not gone back
TrackVisit(url, title, dt) ==
    /\ Len(visits) < MaxVisits
    /\ now' = now + dt
    /\ journey' = trackVisit(journey, url, title, now')
    /\ visits' = Append(visits, url)
    /\ UNCHANGED <<initialized, index, documents, embeddings, calls, pending, stored,
                   response, searches, startup, storedJourney>>
    /\ UNCHANGED <<daemonVars, extVars>>

\* The indexing requests alone, sent as 'indexData', with a storage that works
Next ==
    \/ \E url \in Urls, page \in Pages, dt \in 0..1 :
          AddDocumentBegin(url, page, dt, "indexData")
    \/ \E p \in pending : AddDocumentResume(p)
    \/ \E p \in pending : IndexingDone(p, TRUE)

\* the URLs of the indexing requests where searches are checked: two pages
SearchUrls == {UrlA, UrlB}

\* Indexing requests and searches
SearchNext ==
    \/ \E url \in SearchUrls, page \in Pages, dt \in 0..1 :
          AddDocumentBegin(url, page, dt, "indexData")
    \/ \E p \in pending : AddDocumentResume(p)
    \/ \E p \in pending : IndexingDone(p, TRUE)
    \/ \E query \in Queries, searchType \in Modes \cup PopupModes, limit \in Limits :
          Search(query, searchType, limit)

----------------------------------------------------------------------------
(* The capturing extension's background script: interaction data per tab   *)
(* and the 'search' message, which asks the daemon over HTTP               *)

Tabs == {1, 2}

\* element paths the viewport tracker reports
Selectors == {"h1", "p"}

\* what the tracker reports of a path: <<time visible (ms), visibility percentage>>
ElementReadings == {<<500, 90>>, <<700, 40>>}

\* the tracker's record of one element path
elementData(path, time, percentage) ==
    [timeVisible |-> time, visibilityPercentage |-> percentage, element |-> path]

\* the viewportData objects of the reports
ViewportReports ==
    UNION {[paths -> ElementReadings] : paths \in {{}, {"h1"}, Selectors}}

\* the 'updateInteractionData' requests
InteractionRequests ==
    {[viewportData |-> [path \in DOMAIN f |-> elementData(path, f[path][1], f[path][2])],
      cursorMovement |-> moved[1], scrollEvents |-> moved[2]] :
        f \in ViewportReports, moved \in {<<5, 1>>}}

Max(a, b) == IF a >= b THEN a ELSE b

\* the data kept for a tab that has none yet
newInteractions(time) ==
    [viewportData |-> <<>>, cursorMovement |-> 0, scrollEvents |-> 0, startTime |-> time]

replaceEntry(old, data) == data

\* timeVisible += data.timeVisible; visibilityPercentage = Math.max(old, new)
aggregateEntry(old, data) ==
    [old EXCEPT !.timeVisible = @ + data.timeVisible,
                !.visibilityPercentage = Max(@, data.visibilityPercentage)]

mergeOverwrite(current, reported) ==
    [path \in (DOMAIN current) \cup (DOMAIN reported) |->
        IF path \in DOMAIN reported THEN reported[path] ELSE current[path]]

\* Object.entries(request.viewportData).forEach(([selector, data]) => ...)
mergeViewportData(current, reported) ==
    [path \in (DOMAIN current) \cup (DOMAIN reported) |->
        IF path \notin DOMAIN reported THEN current[path]
        ELSE IF path \notin DOMAIN current THEN reported[path]
        ELSE aggregateEntry(current[path], reported[path])]

\* the 'updateInteractionData' branch of the listener, on the map
updateInteractionData(interactions, tabId, request, time) ==
    LET currentData == IF tabId \in DOMAIN interactions
                       THEN interactions[tabId] ELSE newInteractions(time)
    IN Put(interactions, tabId,
           [currentData EXCEPT
               !.viewportData = mergeViewportData(@, request.viewportData),
               !.cursorMovement = @ + request.cursorMovement,
               !.scrollEvents = @ + request.scrollEvents])

\* what is known of a tab: the page it shows (pages are counted from 1),
\* whether it has been closed, whether the page has reported status complete
\* and whether captureAndSavePage has been called for the page since
newTab == [page |-> 1, closed |-> FALSE, complete |-> FALSE, captured |-> FALSE]

InfoOf(tabId) == IF tabId \in DOMAIN tabInfo THEN tabInfo[tabId] ELSE newTab

Closed(tabId) == InfoOf(tabId).closed

Complete(tabId) == InfoOf(tabId).complete

ExtIdle ==
    /\ pageInteractions = <<>>
    /\ pendingCaptures = <<>>
    /\ reportLog = <<>>
    /\ searchReply = [kind |-> None]
    /\ tracker = <<>>
    /\ inbox = <<>>
    /\ tabInfo = <<>>
    /\ captureRuns = {}
    /\ captureLog = <<>>
    /\ recentCaptures = <<>>

\* ---- viewport-tracker.js, the script injected into the page

\* the sampling period: what one sample adds to a visible element's time
MIN_TRACKING_TIME == 100

\* the visibility time from which reportData reports an element
SignificantTime == 500

\* what one sample can see: path -> visibility percentage of the visible ones
Visibilities ==
    {[path \in {"h1"} |-> 40], [path \in {"h1"} |-> 90],
     [path \in Selectors |-> IF path = "h1" THEN 90 ELSE 40]}

\* the distances of the mouse moves
Distances == {3}

\* the script's variables when it starts, with the counts of what it has
\* seen and sent since: samples, events counted, reports, unload reports and
\* the reports sent after an unload report
newTracker ==
    [viewportData |-> <<>>, cursorMovement |-> 0, scrollEvents |-> 0,
     alive |-> TRUE, samples |-> 0, events |-> 0, scrolled |-> 0, moved |-> 0,
     sent |-> 0, unloads |-> 0, afterUnload |-> 0]

\* trackViewportVisibility, for the elements the sample finds visible
trackViewportVisibility(data, visible) ==
    [path \in (DOMAIN data) \cup (DOMAIN visible) |->
        IF path \notin DOMAIN visible THEN data[path]
        ELSE LET old == IF path \in DOMAIN data THEN data[path]
                        ELSE elementData(path, 0, visible[path])
             IN [old EXCEPT !.timeVisible = @ + MIN_TRACKING_TIME,
                            !.visibilityPercentage = Max(@, visible[path])]]

noFilter(data) == data

\* reportData: the elements with at least 500 ms of visibility
filterSignificant(data) ==
    [path \in {q \in DOMAIN data : data[q].timeVisible >= SignificantTime} |-> data[path]]

\* the message reportData sends
reportMessage(t) ==
    [viewportData |-> filterSignificant(t.viewportData),
     cursorMovement |-> t.cursorMovement, scrollEvents |-> t.scrollEvents]

keepCounters(t) == t

\* reportData: reset counters after reporting
resetCounters(t) == [t EXCEPT !.cursorMovement = 0, !.scrollEvents = 0]

Running(tabId) == tabId \in DOMAIN tracker /\ tracker[tabId].alive

\* setInterval(trackViewportVisibility, MIN_TRACKING_TIME) fires
TrackViewportVisibility(tabId, visible) ==
    /\ Running(tabId)
    /\ tracker[tabId].samples < MaxSamples
    /\ tracker' = [tracker EXCEPT
                      ![tabId].viewportData = trackViewportVisibility(@, visible),
                      ![tabId].samples = @ + 1]
    /\ UNCHANGED <<pageInteractions, pendingCaptures, reportLog, searchReply, inbox>>
    /\ UNCHANGED <<idxVars, daemonVars, capVars>>

\* a mousemove event after the first one, distance away from the last
TrackMouseMovement(tabId, distance) ==
    /\ Running(tabId)
    /\ tracker[tabId].events < MaxEvents
    /\ tracker' = [tracker EXCEPT ![tabId].cursorMovement = @ + distance,
                                  ![tabId].moved = @ + distance,
                                  ![tabId].events = @ + 1]
    /\ UNCHANGED <<pageInteractions, pendingCaptures, reportLog, searchReply, inbox>>
    /\ UNCHANGED <<idxVars, daemonVars, capVars>>

\* a scroll event more than 10 pixels away from the last counted one
TrackScroll(tabId) ==
    /\ Running(tabId)
    /\ tracker[tabId].events < MaxEvents
    /\ tracker' = [tracker EXCEPT ![tabId].scrollEvents = @ + 1,
                                  ![tabId].scrolled = @ + 1,
                                  ![tabId].events = @ + 1]
    /\ UNCHANGED <<pageInteractions, pendingCaptures, reportLog, searchReply, inbox>>
    /\ UNCHANGED <<idxVars, daemonVars, capVars>>

\* reportData, called by setInterval(reportData, REPORTING_INTERVAL) or, with
\* unload, by the beforeunload listener.  After beforeunload the page either
\* leaves, or stays: the navigation was cancelled or has not committed yet,
\* and the intervals and the listener are still there.
ReportData(tabId, unload, leaves) ==
    /\ Running(tabId)
    /\ tracker[tabId].sent < MaxReports
    /\ unload \/ ~leaves
    /\ inbox' = Append(inbox, [tab |-> tabId, request |-> reportMessage(tracker[tabId]),
                               unload |-> unload, page |-> InfoOf(tabId).page])
    /\ tracker' = [tracker EXCEPT
                      ![tabId] = [resetCounters(@) EXCEPT
                                     !.sent = @ + 1,
                                     !.afterUnload = IF tracker[tabId].unloads > 0
                                                     THEN @ + 1 ELSE @,
                                     !.unloads = IF unload THEN @ + 1 ELSE @,
                                     !.alive = ~leaves]]
    /\ UNCHANGED <<pageInteractions, pendingCaptures, reportLog, searchReply>>
    /\ UNCHANGED <<idxVars, daemonVars, capVars>>

\* the background's listener handles the oldest message of the trackers
DeliverReport ==
    /\ inbox # <<>>
    /\ pageInteractions' = updateInteractionData(pageInteractions, Head(inbox).tab,
                                                 Head(inbox).request, clock)
    /\ reportLog' = Append(reportLog, [tab |-> Head(inbox).tab,
                                       request |-> Head(inbox).request,
                                       page |-> Head(inbox).page])
    /\ inbox' = Tail(inbox)
    /\ UNCHANGED <<pendingCaptures, searchReply, tracker>>
    /\ UNCHANGED <<idxVars, daemonVars, capVars>>

\* ---- captureAndSavePage and the pages a tab goes through

\* the address of the n-th page a tab shows
pageUrl(n) == IF n = 1 THEN UrlA ELSE UrlB

\* the tab goes to its next page, whose first update (status loading) the
\* onUpdated listener handles: the pending timeout is cleared and none is
\* set.  The page that leaves has sent its last report (beforeunload).
Navigate(tabId) ==
    /\ tabId \in DOMAIN tabInfo
    /\ ~Closed(tabId)
    /\ ~Running(tabId)
    /\ tabInfo[tabId].page < MaxPages
    /\ tabInfo' = [tabInfo EXCEPT ![tabId] = [newTab EXCEPT !.page = tabInfo[tabId].page + 1]]
    /\ pendingCaptures' =
          IF tabId \in DOMAIN pendingCaptures THEN Put(pendingCaptures, tabId, FALSE)
          ELSE pendingCaptures
    /\ UNCHANGED <<pageInteractions, reportLog, searchReply, tracker, inbox,
                   captureRuns, captureLog, recentCaptures>>
    /\ UNCHANGED <<idxVars, daemonVars>>

\* a captureAndSavePage call is started, saved (savePageData has returned), read
\* (the stored list has been read) or done.  Its metadata is told from the
\* others' by the number of the call.
RunAt(step) == {run \in captureRuns : run.pc = step}

moveRun(run, step, read) ==
    (captureRuns \ {run}) \cup {[run EXCEPT !.pc = step, !.read = read]}

\* the timeout set by the onUpdated listener fires: captureAndSavePage(tabId)
\* runs to its first await, and pendingCaptures.delete(tabId)
CaptureTimerFires(tabId) ==
    /\ tabId \in DOMAIN pendingCaptures
    /\ pendingCaptures[tabId]
    /\ Cardinality(captureRuns) < MaxCaptures
    /\ pendingCaptures' = [t \in (DOMAIN pendingCaptures) \ {tabId} |-> pendingCaptures[t]]
    /\ captureRuns' = captureRuns \cup
          {[id |-> Cardinality(captureRuns) + 1, tab |-> tabId, pc |-> "started",
            read |-> <<>>]}
    /\ tabInfo' = Put(tabInfo, tabId, [InfoOf(tabId) EXCEPT !.captured = TRUE])
    /\ UNCHANGED <<pageInteractions, reportLog, searchReply, tracker, inbox,
                   captureLog, recentCaptures>>
    /\ UNCHANGED <<idxVars, daemonVars>>

\* captureAndSavePage from chrome.tabs.get to the return of savePageData:
\* nothing more is done for a tab that is gone (chrome.tabs.get rejects) or a
\* page whose script fails (scriptOk); otherwise capturePage takes the tab's
\* interaction data (pageData.interactionData, of which savePageData writes a
\* summary), savePageData writes the files, and chrome.storage.local.get is
\* called
CapturePage(run, scriptOk, hasMarkdown) ==
    /\ run \in RunAt("started")
    /\ IF Closed(run.tab) \/ ~scriptOk
       THEN /\ captureRuns' = moveRun(run, "done", <<>>)
            /\ UNCHANGED <<captureLog, daemonVars>>
       ELSE LET page == InfoOf(run.tab).page
                interactionData == IF run.tab \in DOMAIN pageInteractions
                                   THEN pageInteractions[run.tab]
                                   ELSE newInteractions(clock)
                meta == [run |-> run.id, tab |-> run.tab, page |-> page,
                         reports |-> Len(reportLog),
                         interactionData |-> interactionData]
            IN /\ savePageData(pageUrl(page), hasMarkdown, FALSE)
               /\ captureLog' = Append(captureLog, meta)
               /\ captureRuns' = moveRun(run, "saved", <<>>)
    /\ UNCHANGED <<pageInteractions, pendingCaptures, reportLog, searchReply, tracker,
                   inbox, tabInfo, recentCaptures>>
    /\ UNCHANGED idxVars

\* chrome.storage.local.get(['recentCaptures'], ...) reads the stored list
RecentRead(run) ==
    /\ run \in RunAt("saved")
    /\ captureRuns' = moveRun(run, "read", recentCaptures)
    /\ UNCHANGED <<pageInteractions, pendingCaptures, reportLog, searchReply, tracker,
                   inbox, tabInfo, captureLog, recentCaptures>>
    /\ UNCHANGED <<idxVars, daemonVars>>

\* recentCaptures.length = 50 when there are more
keepRecent(list) == IF Len(list) > RecentLimit THEN SubSeq(list, 1, RecentLimit) ELSE list

\* the callback of chrome.storage.local.get: the metadata is put first in the
\* list that was read, and chrome.storage.local.set stores the list
RecentWrite(run) ==
    /\ run \in RunAt("read")
    /\ recentCaptures' = keepRecent(<<run.id>> \o run.read)
    /\ captureRuns' = moveRun(run, "done", <<>>)
    /\ UNCHANGED <<pageInteractions, pendingCaptures, reportLog, searchReply, tracker,
                   inbox, tabInfo, captureLog>>
    /\ UNCHANGED <<idxVars, daemonVars>>

\* a content script of tab tabId reports its interaction data
UpdateInteractionData(tabId, request) ==
    /\ Len(reportLog) < MaxReports
    /\ pageInteractions' = updateInteractionData(pageInteractions, tabId, request, clock)
    /\ reportLog' = Append(reportLog, [tab |-> tabId, request |-> request,
                                       page |-> InfoOf(tabId).page])
    /\ UNCHANGED <<pendingCaptures, searchReply, tracker, inbox>>
    /\ UNCHANGED <<idxVars, daemonVars, capVars>>

\* chrome.tabs.onUpdated: the tab's pending timeout is cleared; when the page
\* has loaded (status complete, a URL that is not chrome://) tracking is
\* initialised, which injects the tracker if the tab has no data yet, and a
\* new timeout set.  A page reports complete once, and loaded = FALSE is any
\* other update (loading, title, favicon).  A closed tab has no updates.
TabUpdated(tabId, loaded) ==
    /\ ~Closed(tabId)
    /\ loaded => ~Complete(tabId)
    /\ tabInfo' = IF loaded THEN Put(tabInfo, tabId, [InfoOf(tabId) EXCEPT !.complete = TRUE])
                  ELSE Put(tabInfo, tabId, InfoOf(tabId))
    /\ pendingCaptures' =
          IF loaded THEN Put(pendingCaptures, tabId, TRUE)
          ELSE IF tabId \in DOMAIN pendingCaptures THEN Put(pendingCaptures, tabId, FALSE)
          ELSE pendingCaptures
    /\ pageInteractions' =
          IF loaded /\ tabId \notin DOMAIN pageInteractions
          THEN Put(pageInteractions, tabId, newInteractions(clock))
          ELSE pageInteractions
    /\ tracker' =
          IF loaded /\ tabId \notin DOMAIN pageInteractions
          THEN Put(tracker, tabId, newTracker)
          ELSE tracker
    /\ UNCHANGED <<reportLog, searchReply, inbox, captureRuns, captureLog, recentCaptures>>
    /\ UNCHANGED <<idxVars, daemonVars>>

\* chrome.tabs.onRemoved: the tab's page and its tracker are gone too
TabRemoved(tabId) ==
    /\ ~Closed(tabId)
    /\ tabInfo' = Put(tabInfo, tabId, [InfoOf(tabId) EXCEPT !.closed = TRUE])
    /\ pendingCaptures' = [t \in (DOMAIN pendingCaptures) \ {tabId} |-> pendingCaptures[t]]
    /\ pageInteractions' = [t \in (DOMAIN pageInteractions) \ {tabId} |-> pageInteractions[t]]
    /\ tracker' = [t \in (DOMAIN tracker) \ {tabId} |-> tracker[t]]
    /\ UNCHANGED <<reportLog, searchReply, inbox, captureRuns, captureLog, recentCaptures>>
    /\ UNCHANGED <<idxVars, daemonVars>>

\* what happens to the request on its way: no answer at all, or an answer
NetOutcomes == {"unreachable", "answered"}

\* the daemon's handleSearch: the status and the results of the answer.  The
\* hits are index.Search's; the model lists them by docID.
handleSearch(query, searchOk, hits) ==
    IF query = <<>> THEN [status |-> 400, results |-> <<>>]
    ELSE IF ~searchOk THEN [status |-> 500, results |-> <<>>]
    ELSE [status |-> 200,
          results |-> LET ids == sortedNames(hits)
                      IN [i \in DOMAIN ids |->
                             [url |-> bleve[ids[i]].url, title |-> bleve[ids[i]].title]]]

\* searchContent: the parsed answer, or { error, results: [] } from the catch
searchContent(query, net, searchOk, hits) ==
    LET http == handleSearch(query, searchOk, hits)
    IN IF net = "unreachable"
       THEN [error |-> "Failed to fetch", results |-> <<>>]
       ELSE IF http.status # 200
       THEN [error |-> "HTTP error", results |-> <<>>]
       ELSE [error |-> None, results |-> http.results]

\* .then(results => sendResponse({ success: true, results })): searchContent
\* never rejects, so the .catch of the handler never runs
replySuccess(value) == [success |-> TRUE, results |-> value]

\* the 'search' message of the popup
SearchMessage(query, net, searchOk, hits) ==
    /\ LET http == handleSearch(query, searchOk, hits)
           reply == replySuccess(searchContent(query, net, searchOk, hits))
       IN searchReply' = [kind |-> "search", query |-> query,
                          status |-> IF net = "unreachable" THEN 0 ELSE http.status,
                          success |-> reply.success, results |-> reply.results]
    /\ UNCHANGED <<pageInteractions, pendingCaptures, reportLog, tracker, inbox>>
    /\ UNCHANGED <<idxVars, daemonVars, capVars>>

Init == IndexIdle /\ DaemonIdle /\ ExtIdle

Spec == Init /\ [][Next]_vars

SearchSpec == Init /\ [][SearchNext]_vars

\* the pages of the requests where the handlers' answers are checked
HandlerPages == Pages \cup {PageConstructor}

\* Indexing requests of both kinds, with a storage write that can fail
HandlerNext ==
    \/ \E page \in HandlerPages, dt \in 0..1, action \in IndexActions :
          AddDocumentBegin(UrlA, page, dt, action)
    \/ \E p \in pending : AddDocumentResume(p)
    \/ \E p \in pending, saveOk \in BOOLEAN : IndexingDone(p, saveOk)

HandlerSpec == Init /\ [][HandlerNext]_vars

\* Captures, downloads and the daemon's ticks
DaemonNext ==
    \/ \E url \in CaptureUrls, hasMarkdown \in BOOLEAN, withHtml \in BOOLEAN :
          Capture(url, hasMarkdown, withHtml)
    \/ \E d \in downloads : DownloadComplete(d)
    \/ \E readDirOk \in BOOLEAN : TickStart(readDirOk)
    \/ \E fault \in Faults : ProcessFile(fault)
    \/ TickEnd

DaemonSpec == Init /\ [][DaemonNext]_vars

\* the loop body is at this file
Visiting(file) == ticking /\ cursor <= Len(listing) /\ listing[cursor] = file

\* the page captured where the daemon's progress is checked
LiveUrls == {UrlA}

\* the same steps, with the captures of that page
DaemonLiveNext ==
    \/ \E url \in LiveUrls, hasMarkdown \in BOOLEAN, withHtml \in BOOLEAN :
          Capture(url, hasMarkdown, withHtml)
    \/ \E d \in downloads : DownloadComplete(d)
    \/ \E readDirOk \in BOOLEAN : TickStart(readDirOk)
    \/ \E fault \in Faults : ProcessFile(fault)
    \/ TickEnd

\* the base names a capture can give a file
AllBases == {generateFilename(url, time) : url \in LiveUrls, time \in 1..MaxCaptures}

\* watchForNewFiles calls indexExistingFiles again after every sleep and the
\* loop goes on to the next file; no file is hit by a fault on every visit and
\* ReadDir does not fail for ever.
DaemonFairness ==
    /\ WF_vars(TickStart(TRUE))
    /\ WF_vars(\E fault \in Faults : ProcessFile(fault))
    /\ WF_vars(TickEnd)
    /\ \A file \in AllBases : SF_vars(Visiting(file) /\ ProcessFile("none"))

DaemonFairSpec == Init /\ [][DaemonLiveNext]_vars /\ DaemonFairness

\* Interaction reports and tab events
AttentionNext ==
    \/ \E tabId \in Tabs, request \in InteractionRequests :
          UpdateInteractionData(tabId, request)
    \/ \E tabId \in Tabs, loaded \in BOOLEAN : TabUpdated(tabId, loaded)
    \/ \E tabId \in Tabs : TabRemoved(tabId)

AttentionSpec == Init /\ [][AttentionNext]_vars

\* the queries the popup's search box sends to the daemon
DaemonQueries == {QueryEmpty, QueryHi}

\* Captures of one page, the daemon's ticks without faults, and searches
QueryNext ==
    \/ \E hasMarkdown \in BOOLEAN : Capture(UrlA, hasMarkdown, TRUE)
    \/ \E d \in downloads : DownloadComplete(d)
    \/ TickStart(TRUE)
    \/ ProcessFile("none")
    \/ TickEnd
    \/ \E query \in DaemonQueries, net \in NetOutcomes, searchOk \in BOOLEAN,
          hits \in SUBSET DOMAIN bleve :
          SearchMessage(query, net, searchOk, hits)

QuerySpec == Init /\ [][QueryNext]_vars

\* The journey alone: visits of pages whose urls may hold an underscore
JourneyNext == \E url \in JourneyUrls, dt \in 0..1 : TrackVisit(url, TitleA, dt)

JourneySpec == Init /\ [][JourneyNext]_vars

\* The start of the background script with indexing requests of both kinds
StartupNext ==
    \/ ServicesInitialized
    \/ LoadStoredData
    \/ \E page \in HandlerPages, action \in IndexActions :
          AddDocumentRejected(UrlA, page, action)
    \/ \E page \in HandlerPages, dt \in 0..1, action \in IndexActions :
          AddDocumentBegin(UrlA, page, dt, action)
    \/ \E p \in pending : AddDocumentResume(p)
    \/ \E p \in pending, saveOk \in BOOLEAN : IndexingDone(p, saveOk)

StartupInit == IndexStarting /\ DaemonIdle /\ ExtIdle

StartupSpec == StartupInit /\ [][StartupNext]_vars

\* One tab's page with its tracker: samples, events, reports and their handling
TrackerNext ==
    \/ TabUpdated(1, TRUE)
    \/ \E visible \in Visibilities : TrackViewportVisibility(1, visible)
    \/ \E distance \in Distances : TrackMouseMovement(1, distance)
    \/ TrackScroll(1)
    \/ \E unload \in BOOLEAN, leaves \in BOOLEAN : ReportData(1, unload, leaves)
    \/ DeliverReport

TrackerSpec == Init /\ [][TrackerNext]_vars

\* One tab from its first page to its closing: its updates, its tracker's
\* scroll events and reports, and the captures its timeouts start
CaptureNext ==
    \/ \E loaded \in BOOLEAN : TabUpdated(1, loaded)
    \/ Navigate(1)
    \/ TabRemoved(1)
    \/ TrackScroll(1)
    \/ \E unload \in BOOLEAN, leaves \in BOOLEAN : ReportData(1, unload, leaves)
    \/ DeliverReport
    \/ CaptureTimerFires(1)
    \/ \E run \in captureRuns, scriptOk \in BOOLEAN, hasMarkdown \in BOOLEAN :
          CapturePage(run, scriptOk, hasMarkdown)
    \/ \E run \in captureRuns : RecentRead(run)
    \/ \E run \in captureRuns : RecentWrite(run)

CaptureSpec == Init /\ [][CaptureNext]_vars

\* a timeout that is set fires when its delay has passed
CaptureFairSpec == CaptureSpec /\ WF_vars(CaptureTimerFires(1))

----------------------------------------------------------------------------
(* Claims about the inverted index *)

NoDuplicates(list) == \A i, j \in DOMAIN list : list[i] = list[j] => i = j

EmbeddingIds(entries) == {entries[i].id : i \in DOMAIN entries}

EntriesFor(entries, docId) == {i \in DOMAIN entries : entries[i].id = docId}

\* the tokens addDocument indexes for a document
TokensOf(doc) == Range(tokenize(doc.content \o <<" ">> \o doc.title))

\* C1: adding the same document (same url, content and title) a second time
\* leaves the postings, the embeddings' keys and the documents' keys as the
\* first addition left them; no posting list holds a docId twice and a docId
\* has one embedding entry.  Stated of every reachable index and every
\* document: the index after one more addition against the index after two.
C1_AddTwiceSameAsOnce ==
    /\ \A url \in Urls, page \in Pages :
          LET once == addDocument(getIndex, url, page.content, page.title, now)
              twice == addDocument(once, url, page.content, page.title, now + 1)
              docId == normalizeUrl(url)
          IN /\ twice.index = once.index
             /\ EmbeddingIds(twice.embeddings) = EmbeddingIds(once.embeddings)
             /\ DOMAIN twice.documents = DOMAIN once.documents
             /\ \A token \in DOMAIN twice.index : NoDuplicates(twice.index[token])
             /\ Cardinality(EntriesFor(twice.embeddings, docId)) = 1
    /\ \A token \in DOMAIN index : NoDuplicates(index[token])
    /\ \A i, j \in DOMAIN embeddings : embeddings[i].id = embeddings[j].id => i = j

\* C1 witness: the same document has been added twice, both calls are over,
\* and its docId is once in its posting lists and once in the embeddings.
C1_Witness ==
    /\ Len(calls) = 2
    /\ calls[1] = calls[2]
    /\ pending = {}
    /\ Len(embeddings) = 1
    /\ DOMAIN documents = {normalizeUrl(calls[1].url)}
    /\ \E token \in DOMAIN index : index[token] = <<normalizeUrl(calls[1].url)>>

\* C3: every snapshot written to storage holds, for each docId of its
\* documents, the document's embedding and its postings.
C3_StoredSnapshotComplete ==
    \A docId \in DOMAIN stored.documents :
        /\ docId \in EmbeddingIds(stored.embeddings)
        /\ \A token \in TokensOf(stored.documents[docId]) :
              /\ token \in DOMAIN stored.index
              /\ Includes(stored.index[token], docId)

\* the URLs made of a remainder by a scheme, at most one leading "www." and at
\* most one trailing slash
Variants(core) ==
    {<<s>> \o w \o core \o t : s \in Schemes, w \in {<<>>, <<"www.">>}, t \in {<<>>, <<"/">>}}

Remainders(url) == {SubSeq(url, a, b) : a \in 1..(Len(url) + 1), b \in 0..Len(url)}

\* u and v differ only by the scheme, a leading "www." or one trailing slash
DiffersOnlyBy(u, v) ==
    \E core \in Remainders(u) : u \in Variants(core) /\ v \in Variants(core)

\* the same, of a remainder that neither starts with "www." nor ends with a slash
DiffersOnlyByOfPlain(u, v) ==
    \E core \in Remainders(u) :
        /\ u \in Variants(core) /\ v \in Variants(core)
        /\ stripSlash(stripWww(core)) = core

\* the last call for a docId
LastCallFor(docId) ==
    LET of == {k \in DOMAIN calls : normalizeUrl(calls[k].url) = docId}
    IN CHOOSE k \in of : \A m \in of : m <= k

CarriesLatestCall(docId) ==
    LET c == calls[LastCallFor(docId)]
        doc == documents[docId]
    IN doc.url = c.url /\ doc.content = c.content /\ doc.title = c.title

\* C4 as claimed: calls whose URLs differ only by the scheme, a leading "www."
\* or one trailing slash share one entry of documents, which carries the data
\* of the latest of them.
C4_VariantsShareOneEntry ==
    \A i, j \in DOMAIN calls :
        DiffersOnlyBy(calls[i].url, calls[j].url) =>
            /\ Cardinality({normalizeUrl(calls[i].url), normalizeUrl(calls[j].url)}
                           \cap DOMAIN documents) = 1
            /\ CarriesLatestCall(normalizeUrl(calls[j].url))

\* C4 amended: the same, for URLs that are variants of a remainder which itself
\* neither starts with "www." nor ends with a slash.
C4_PlainVariantsShareOneEntry ==
    \A i, j \in DOMAIN calls :
        DiffersOnlyByOfPlain(calls[i].url, calls[j].url) =>
            /\ Cardinality({normalizeUrl(calls[i].url), normalizeUrl(calls[j].url)}
                           \cap DOMAIN documents) = 1
            /\ CarriesLatestCall(normalizeUrl(calls[j].url))

\* C4 witness: two calls on variants of one page with different content; one
\* entry, with the second call's content.
C4_Witness ==
    /\ Len(calls) = 2
    /\ calls[1].url = UrlAws /\ calls[2].url = UrlA
    /\ calls[1].content # calls[2].content
    /\ pending = {}
    /\ DOMAIN documents = {normalizeUrl(UrlA)}
    /\ documents[normalizeUrl(UrlA)].content = calls[2].content
    /\ documents[normalizeUrl(UrlA)].url = UrlA

IsSearch == response.kind = "search"

\* the lexical score of docId for the query, from the posting lists (none: 0)
LexOf(data, query, docId) ==
    LET tokens == tokenize(query)
        hits == {i \in DOMAIN tokens :
                    /\ tokens[i] \in DOMAIN data.index
                    /\ Includes(data.index[tokens[i]], docId)}
    IN IF hits = {} THEN 0 ELSE (Cardinality(hits) * ScoreUnit) \div Len(tokens)

InLexical(data, query, docId) ==
    /\ docId \in DOMAIN data.documents
    /\ \E token \in Range(tokenize(query)) :
          token \in DOMAIN data.index /\ Includes(data.index[token], docId)

InSemantic(data, docId) == docId \in EmbeddingIds(data.embeddings)

\* the similarity of the query to docId's stored vector
SimOf(data, query, simOf, docId) ==
    cosineSimilarity(generateEmbedding(query),
                     data.embeddings[PositionOf(data.embeddings, docId)].vec, simOf)

\* C8: in hybrid mode a result in only one of the lexical and semantic result
\* sets has that set's score, and a result in both has the arithmetic mean of
\* its lexical score and its similarity (twice the score is their sum).
C8_HybridScore ==
    (IsSearch /\ response.searchType = "hybrid") =>
        \A i \in DOMAIN response.results :
            LET r == response.results[i]
                docId == normalizeUrl(r.url)
                lex == LexOf(stored, response.query, docId)
                inLex == InLexical(stored, response.query, docId)
                inSem == InSemantic(stored, docId)
            IN /\ inLex \/ inSem
               /\ (inLex /\ ~inSem) => r.score = lex
               /\ (inSem /\ ~inLex) => r.score = SimOf(stored, response.query, response.simOf, docId)
               /\ (inLex /\ inSem) =>
                     2 * r.score = lex + SimOf(stored, response.query, response.simOf, docId)

\* C8 witness: a hybrid search returned a document of both result sets whose
\* two scores differ, and a document of the semantic set alone.
C8_Witness ==
    /\ IsSearch /\ response.searchType = "hybrid"
    /\ \E i, j \in DOMAIN response.results :
          LET a == normalizeUrl(response.results[i].url)
              b == normalizeUrl(response.results[j].url)
          IN /\ InLexical(stored, response.query, a) /\ InSemantic(stored, a)
             /\ LexOf(stored, response.query, a)
                   # SimOf(stored, response.query, response.simOf, a)
             /\ ~InLexical(stored, response.query, b) /\ InSemantic(stored, b)

\* C9: the list search returns is sorted by score, highest first.
C9_SortedByScore ==
    IsSearch =>
        \A i \in 1..(Len(response.results) - 1) :
            response.results[i].score >= response.results[i + 1].score

\* C9 witness: a search whose candidates were not in score order returned
\* two results of different scores.
C9_Witness ==
    /\ IsSearch
    /\ Len(response.results) >= 2
    /\ response.results[1].score > response.results[2].score
    /\ LET c == candidates(stored, response.query, response.searchType, response.simOf)
       IN \E i \in 1..(Len(c) - 1) : c[i].score < c[i + 1].score

\* C10: of two results of equal score, the one whose document has the more
\* recent timestamp comes first.
C10_TieBreakByRecency ==
    IsSearch =>
        \A i, j \in DOMAIN response.results :
            (i < j /\ response.results[i].score = response.results[j].score) =>
                response.results[i].timestamp >= response.results[j].timestamp

----------------------------------------------------------------------------
(* Claims about the capture-to-daemon pipeline *)

\* C2: once a metadata record has Indexed = true, no step of the daemon calls
\* index.Index for it, rewrites its metadata or sets Indexed back to false.
C2_IndexedIsFinal ==
    [][\A file \in DOMAIN metaFiles :
          metaFiles[file].indexed =>
              /\ file \in DOMAIN metaFiles'
              /\ metaFiles'[file] = metaFiles[file]
              /\ indexCall' # file]_vars

\* C2 witness: a later tick visited a record that was Indexed and skipped it.
C2_Witness ==
    \E file \in DOMAIN tickLog :
        /\ tickLog[file] = "skipIndexed"
        /\ metaFiles[file].indexed
        /\ file \in DOMAIN bleve

\* C5: the daemon's index holds at most one document for a URL, however often
\* the URL was captured.
C5_OneDocumentPerUrl ==
    \A url \in CaptureUrls :
        Cardinality({docID \in DOMAIN bleve : bleve[docID].url = url}) <= 1

\* C6: when the loop of a tick is over, every metadata file the tick listed was
\* visited, whatever failed on the files before it, and every file that no
\* failure of its own hit is in the index and marked Indexed.
C6_FailuresAreIsolated ==
    (ticking /\ cursor > Len(listing)) =>
        \A i \in DOMAIN listing :
            /\ listing[i] \in DOMAIN tickLog
            /\ tickLog[listing[i]] \notin Failures =>
                  /\ metaFiles[listing[i]].indexed
                  /\ listing[i] \in DOMAIN bleve

\* C6 witness: a tick in which the first file failed and the second was
\* indexed and marked.
C6_Witness ==
    /\ ticking /\ cursor > Len(listing)
    /\ Len(listing) = 2
    /\ tickLog[listing[1]] \in Failures
    /\ tickLog[listing[2]] = "indexed"
    /\ metaFiles[listing[2]].indexed
    /\ listing[2] \in DOMAIN bleve

\* the content file of a record is there to be read
ContentReadable(file) ==
    /\ file \in DOMAIN metaFiles
    /\ contentPathOf(metaFiles[file], contentFiles) \in contentFiles

C31_IndexedIsInIndex ==
    \A file \in DOMAIN metaFiles :
        metaFiles[file].indexed =>
            /\ file \in DOMAIN bleve
            /\ bleve[file].url = metaFiles[file].url
            /\ bleve[file].title = metaFiles[file].title

\* C31 witness: of two captured pages one is flagged and in the index; the
\* other met an error of index.Index in this pass and is neither.
C31_Witness ==
    \E done \in DOMAIN metaFiles, failed \in DOMAIN metaFiles :
        /\ metaFiles[done].indexed
        /\ done \in DOMAIN bleve
        /\ failed \in DOMAIN tickLog
        /\ tickLog[failed] = "indexError"
        /\ ~metaFiles[failed].indexed
        /\ failed \notin DOMAIN bleve

----------------------------------------------------------------------------
(* Claims about search: truncation, lexical scores and empty results *)

\* the candidates the answered search ranked, before the sort
CandidatesOf ==
    candidates(stored, response.query, response.searchType, response.simOf)

\* whether the answered search returned the document docId
Returned(docId) ==
    \E i \in DOMAIN response.results : normalizeUrl(response.results[i].url) = docId

\* C11: search returns no more than limit results, and they are the limit
\* highest-scoring candidates: as many as the limit allows, each of them a
\* candidate, none twice, and no candidate left out scores higher than any
\* result returned.
C11_TopLimit ==
    (IsSearch /\ ~response.error) =>
        LET c == CandidatesOf
            res == response.results
        IN /\ Len(res) <= response.limit
           /\ Len(res) = Min(response.limit, Len(c))
           /\ \A i \in DOMAIN res : \E k \in DOMAIN c : c[k] = res[i]
           /\ \A i, j \in DOMAIN res : res[i].url = res[j].url => i = j
           /\ \A k \in DOMAIN c :
                 (\A i \in DOMAIN res : res[i].url # c[k].url) =>
                     \A i \in DOMAIN res : res[i].score >= c[k].score

\* C11 witness: a search with limit 1 over two candidates, the second of them
\* the higher, returned that one alone.
C11_Witness ==
    /\ IsSearch /\ ~response.error
    /\ response.limit = 1
    /\ Len(CandidatesOf) = 2
    /\ CandidatesOf[1].score < CandidatesOf[2].score
    /\ response.results = <<CandidatesOf[2]>>

\* C12: in text mode the score of a returned document is the number of the
\* query's tokens (each occurrence counted) whose posting list holds the
\* document, over the number of the query's tokens, and is in (0, 1].
C12_LexicalScoreInUnit ==
    (IsSearch /\ response.searchType = "text") =>
        \A i \in DOMAIN response.results :
            LET r == response.results[i]
            IN /\ r.score = LexOf(stored, response.query, normalizeUrl(r.url))
               /\ 0 < r.score
               /\ r.score <= ScoreUnit

\* C12 witness: a text search with a query that repeats a token returned a
\* document with a score strictly between 0 and 1.
C12_Witness ==
    /\ IsSearch /\ response.searchType = "text"
    /\ response.query = QueryHiHiZz
    /\ \E i \in DOMAIN response.results :
          /\ response.results[i].score > 0
          /\ response.results[i].score < ScoreUnit

\* the distinct tokens of the query whose posting list holds docId
DistinctMatches(data, query, docId) ==
    {token \in Range(tokenize(query)) :
        token \in DOMAIN data.index /\ Includes(data.index[token], docId)}

\* C13: in text mode the raw match count of a returned document (its score
\* times the number of query tokens) is the number of distinct query tokens
\* whose posting list holds it.
C13_CountsDistinctTokens ==
    (IsSearch /\ response.searchType = "text") =>
        \A i \in DOMAIN response.results :
            LET r == response.results[i]
            IN r.score * Len(tokenize(response.query))
                  = ScoreUnit * Cardinality(DistinctMatches(stored, response.query,
                                                            normalizeUrl(r.url)))

\* the index in storage is the index in memory and no addDocument is under way
Settled == pending = {} /\ stored = getIndex

\* C14: with every addDocument over and saved, a text search (not truncated)
\* returns a document exactly if a token of the query is a token of the
\* document's content or title, with a positive score, and without an error.
C14_TextSearchRoundTrip ==
    (IsSearch /\ response.searchType = "text" /\ response.limit = HandlerLimit /\ Settled) =>
        /\ ~response.error
        /\ \A docId \in DOMAIN stored.documents :
              Returned(docId) <=>
                  (Range(tokenize(response.query)) \cap TokensOf(stored.documents[docId])) # {}
        /\ \A i \in DOMAIN response.results : response.results[i].score > 0

\* C15: in the ranking of a hybrid search, a document that matches a token of
\* the query is not behind a document of the same similarity that matches none.
C15_LexicalMatchIsBoost ==
    (IsSearch /\ response.searchType = "hybrid" /\ ~response.error) =>
        LET ranked == sortByScore(CandidatesOf)
            docIdAt(i) == normalizeUrl(ranked[i].url)
            matches(i) == InLexical(stored, response.query, docIdAt(i))
            sim(i) == SimOf(stored, response.query, response.simOf, docIdAt(i))
        IN \A i, j \in DOMAIN ranked :
              (/\ i < j
               /\ InSemantic(stored, docIdAt(i)) /\ InSemantic(stored, docIdAt(j))
               /\ sim(i) = sim(j))
              => ~(matches(j) /\ ~matches(i))

\* C16: a text or hybrid search with a query that has tokens, none of them in
\* the index, returns the empty list and no error.
C16_NoMatchIsEmpty ==
    (/\ IsSearch
     /\ response.searchType \in {"text", "hybrid"}
     /\ tokenize(response.query) # <<>>
     /\ \A token \in Range(tokenize(response.query)) : token \notin DOMAIN stored.index)
    => (response.results = <<>> /\ ~response.error)

\* C17: a search with a query without tokens is answered with an error.
C17_EmptyQueryRejected ==
    (IsSearch /\ tokenize(response.query) = <<>>) => response.error

----------------------------------------------------------------------------
(* Claims about vector dimensions and the popup's search modes *)

\* C29: every vector addDocument stored and every query's vector, the empty
\* query's too, has the one fixed length, and no vector or hybrid search of
\* the index, in memory or in storage, finds vectors of different lengths.
C29_OneDimension ==
    /\ \A i \in DOMAIN embeddings : embeddings[i].vec.dim = EmbeddingDim
    /\ \A i \in DOMAIN stored.embeddings : stored.embeddings[i].vec.dim = EmbeddingDim
    /\ \A query \in Queries :
          /\ generateEmbedding(query).dim = EmbeddingDim
          /\ \A searchType \in {"vector", "hybrid"} :
                /\ ~dimensionMismatch(stored, query, searchType)
                /\ ~dimensionMismatch(getIndex, query, searchType)

\* C29 witness: a vector search with the empty query compared its vector with
\* the stored vectors of two documents and returned both.
C29_Witness ==
    /\ IsSearch
    /\ response.searchType = "vector"
    /\ response.query = QueryEmpty
    /\ response.limit = HandlerLimit
    /\ ~response.error
    /\ Len(response.results) = 2
    /\ Len(stored.embeddings) = 2

\* C30: a search in a mode of the popup, with room for every document, returns
\* every stored document that has a token of the query.
C30_PopupModesHonoured ==
    (IsSearch /\ response.searchType \in PopupModes /\ response.limit = HandlerLimit
        /\ ~response.error) =>
        \A docId \in DOMAIN stored.documents :
            InLexical(stored, response.query, docId) => Returned(docId)

----------------------------------------------------------------------------
(* Claims about the indexing handlers' answers *)

\* C19: an indexing request whose storage write failed is not answered with
\* success.
C19_SaveFailurePropagates ==
    (response.kind = "index" /\ ~response.saved) => ~response.ok

----------------------------------------------------------------------------
(* Claims about the capturing extension's background script *)

\* C18: when the request to the daemon got no answer or an answer that is not
\* OK, the 'search' handler answers with success = false and an error.
C18_FailedSearchIsReported ==
    (searchReply.kind = "search" /\ searchReply.status # 200) =>
        /\ ~searchReply.success
        /\ searchReply.results.error # None

\* the viewportData of the tab after the two requests, first then second,
\* were handled for it
AfterBoth(tabId, first, second) ==
    updateInteractionData(updateInteractionData(pageInteractions, tabId, first, clock),
                          tabId, second, clock)[tabId].viewportData

\* C20: for every state of the map, every tab and every two reports on a path,
\* handling them in either order leaves the same total time visible and the
\* same greatest visibility percentage for the path.
C20_AggregationCommutes ==
    \A tabId \in Tabs, R1 \in InteractionRequests, R2 \in InteractionRequests :
        LET forth == AfterBoth(tabId, R1, R2)
            back == AfterBoth(tabId, R2, R1)
        IN \A path \in (DOMAIN R1.viewportData) \cap (DOMAIN R2.viewportData) :
              /\ forth[path].timeVisible = back[path].timeVisible
              /\ forth[path].visibilityPercentage = back[path].visibilityPercentage

\* C20 witness: two reports on one path of one tab, different in time and in
\* percentage, were handled; the path has the sum of the times and the
\* greater percentage.
C20_Witness ==
    /\ Len(reportLog) = 2
    /\ reportLog[1].tab = reportLog[2].tab
    /\ reportLog[1].tab \in DOMAIN pageInteractions
    /\ "h1" \in DOMAIN reportLog[1].request.viewportData
    /\ "h1" \in DOMAIN reportLog[2].request.viewportData
    /\ LET d1 == reportLog[1].request.viewportData["h1"]
           d2 == reportLog[2].request.viewportData["h1"]
           entry == pageInteractions[reportLog[1].tab].viewportData["h1"]
       IN /\ d1.timeVisible # d2.timeVisible
          /\ d1.visibilityPercentage > d2.visibilityPercentage
          /\ entry.timeVisible = d1.timeVisible + d2.timeVisible
          /\ entry.visibilityPercentage = d1.visibilityPercentage

\* the step handles a report of tab tabId
Reported(tabId) ==
    /\ Len(reportLog') = Len(reportLog) + 1
    /\ reportLog'[Len(reportLog')].tab = tabId

\* C21: in every step in which a tab stays open, every element path of the tab
\* keeps its entry, whose time visible and visibility percentage do not
\* decrease; a report on the path adds its time to the entry's and leaves the
\* greater of the two percentages, and any other step leaves the entry alone.
C21_AggregatesOnlyGrow ==
    [][\A tabId \in (DOMAIN pageInteractions) \cap (DOMAIN pageInteractions') :
          LET old == pageInteractions[tabId].viewportData
              new == pageInteractions'[tabId].viewportData
              reported == IF Reported(tabId)
                          THEN reportLog'[Len(reportLog')].request.viewportData
                          ELSE <<>>
          IN \A path \in DOMAIN old :
                /\ path \in DOMAIN new
                /\ new[path].timeVisible >= old[path].timeVisible
                /\ new[path].visibilityPercentage >= old[path].visibilityPercentage
                /\ IF path \in DOMAIN reported
                   THEN /\ new[path].timeVisible
                              = old[path].timeVisible + reported[path].timeVisible
                        /\ new[path].visibilityPercentage
                              = Max(old[path].visibilityPercentage,
                                    reported[path].visibilityPercentage)
                   ELSE new[path] = old[path]]_vars

\* C21 witness: the later of two reports on "p" had the shorter time and the
\* higher percentage; the entry has the sum of the times and that percentage.
C21_Witness ==
    /\ Len(reportLog) = 2
    /\ reportLog[1].tab = reportLog[2].tab
    /\ reportLog[1].tab \in DOMAIN pageInteractions
    /\ "p" \in DOMAIN reportLog[1].request.viewportData
    /\ "p" \in DOMAIN reportLog[2].request.viewportData
    /\ LET d1 == reportLog[1].request.viewportData["p"]
           d2 == reportLog[2].request.viewportData["p"]
           entry == pageInteractions[reportLog[1].tab].viewportData["p"]
       IN /\ d2.timeVisible < d1.timeVisible
          /\ d2.visibilityPercentage > d1.visibilityPercentage
          /\ entry.timeVisible = d1.timeVisible + d2.timeVisible
          /\ entry.visibilityPercentage = d2.visibilityPercentage

\* C22: no element entry stored for any tab has been visible for less than
\* 500 ms, whatever the samples and the reports were.
C22_NoiseNeverStored ==
    \A tabId \in DOMAIN pageInteractions :
        \A path \in DOMAIN pageInteractions[tabId].viewportData :
            pageInteractions[tabId].viewportData[path].timeVisible >= SignificantTime

\* C22 witness: the tracker has seen "p" for less than 500 ms and "h1" for
\* longer, its report was handled, and the tab has an entry for "h1" only.
C22_Witness ==
    /\ 1 \in DOMAIN tracker
    /\ 1 \in DOMAIN pageInteractions
    /\ reportLog # <<>>
    /\ inbox = <<>>
    /\ "p" \in DOMAIN tracker[1].viewportData
    /\ tracker[1].viewportData["p"].timeVisible < SignificantTime
    /\ tracker[1].viewportData["p"].timeVisible > 0
    /\ DOMAIN pageInteractions[1].viewportData = {"h1"}

\* the sum of a counter over the messages of tabId that are still on their way
RECURSIVE InFlight(_, _, _)
InFlight(messages, tabId, counter) ==
    IF messages = <<>> THEN 0
    ELSE (IF Head(messages).tab = tabId THEN Head(messages).request[counter] ELSE 0)
         + InFlight(Tail(messages), tabId, counter)

\* C23: what the tab has of scroll events and of cursor movement, with what
\* is still on its way, is what the tracker counted up to its last report:
\* all it ever counted less what it counted since that report.
C23_CountersAreConserved ==
    \A tabId \in (DOMAIN tracker) \cap (DOMAIN pageInteractions) :
        /\ pageInteractions[tabId].scrollEvents + InFlight(inbox, tabId, "scrollEvents")
              = tracker[tabId].scrolled - tracker[tabId].scrollEvents
        /\ pageInteractions[tabId].cursorMovement + InFlight(inbox, tabId, "cursorMovement")
              = tracker[tabId].moved - tracker[tabId].cursorMovement

\* C23 witness: two reports with one scroll event each were handled, and a
\* mouse move was counted after the last one; the tab has two scroll events.
C23_Witness ==
    /\ 1 \in DOMAIN tracker
    /\ 1 \in DOMAIN pageInteractions
    /\ inbox = <<>>
    /\ Len(reportLog) = 2
    /\ reportLog[1].request.scrollEvents = 1
    /\ reportLog[2].request.scrollEvents = 1
    /\ pageInteractions[1].scrollEvents = 2
    /\ tracker[1].scrolled = 2
    /\ tracker[1].cursorMovement > 0
    /\ pageInteractions[1].cursorMovement = 0

\* C33: the time visible a tab has for an element path is no more than the
\* time the tab's tracker sampled the element as visible.
C33_NoTimeCountedTwice ==
    \A tabId \in (DOMAIN tracker) \cap (DOMAIN pageInteractions) :
        \A path \in DOMAIN pageInteractions[tabId].viewportData :
            /\ path \in DOMAIN tracker[tabId].viewportData
            /\ pageInteractions[tabId].viewportData[path].timeVisible
                  <= tracker[tabId].viewportData[path].timeVisible

\* C24: a page sends its unload report at most once and no report after it
C24_UnloadReportIsFinal ==
    \A tabId \in DOMAIN tracker :
        /\ tracker[tabId].unloads <= 1
        /\ tracker[tabId].afterUnload = 0

----------------------------------------------------------------------------
(* Claims about the journey *)

\* how many trackVisit calls were made for url
VisitsOf(url) == Cardinality({i \in DOMAIN visits : visits[i] = url})

\* how many times a visit of source was directly followed by a visit of target
TransitionsOf(source, target) ==
    Cardinality({i \in 1..(Len(visits) - 1) :
                    visits[i] = source /\ visits[i + 1] = target})

VisitedUrls == {visits[i] : i \in DOMAIN visits}

NodeOf(url) == journey.nodes[NodeAt(journey.nodes, url)]

\* C25: a node's visitCount is the number of visits of its url, and the edge
\* of an ordered pair of different urls counts the visits of the first that
\* were directly followed by a visit of the second
C25_CountsMatchVisits ==
    /\ \A url \in VisitedUrls : NodeOf(url).visitCount = VisitsOf(url)
    /\ \A source \in VisitedUrls, target \in VisitedUrls :
          (source # target /\ TransitionsOf(source, target) > 0)
             => /\ edgeKey(source, target) \in DOMAIN journey.edges
                /\ journey.edges[edgeKey(source, target)].traversals
                      = TransitionsOf(source, target)

\* C26: the root is the url of the first visit and never changes, and the
\* current page is the url of the last visit
C26_RootFirstCurrentLast ==
    IF visits = <<>>
    THEN journey.root = NoUrl /\ journey.current = NoUrl
    ELSE journey.root = visits[1] /\ journey.current = visits[Len(visits)]

\* the journey went on to other pages and the root stayed at the first one
C26_Witness ==
    /\ Len(visits) >= 3
    /\ visits[1] # visits[2]
    /\ visits[Len(visits)] # visits[1]
    /\ journey.root = visits[1]
    /\ journey.current = visits[Len(visits)]

\* the ordered pairs of different urls that were traversed
TraversedPairs ==
    {pair \in VisitedUrls \X VisitedUrls :
        pair[1] # pair[2] /\ TransitionsOf(pair[1], pair[2]) > 0}

\* C27: two different ordered pairs of urls never share an edge record, and
\* every edge record is the record of the pair it is stored under
C27_OneEdgePerOrderedPair ==
    /\ \A first \in TraversedPairs, second \in TraversedPairs :
          first # second
             => edgeKey(first[1], first[2]) # edgeKey(second[1], second[2])
    /\ \A key \in DOMAIN journey.edges :
          LET edge == journey.edges[key]
          IN /\ <<edge.source, edge.target>> \in TraversedPairs
             /\ key = edgeKey(edge.source, edge.target)

\* list holds at most limit nodes of the journey, none twice, in descending
\* order of field, and no node left out has more of field than one in it
TopNodes(list, limit, field) ==
    /\ Len(list) = Min(limit, Len(journey.nodes))
    /\ \A i \in DOMAIN list : \E k \in DOMAIN journey.nodes : journey.nodes[k] = list[i]
    /\ \A i \in DOMAIN list, k \in DOMAIN list : i # k => list[i].url # list[k].url
    /\ \A i \in DOMAIN list, k \in DOMAIN list :
          i < k => list[i][field] >= list[k][field]
    /\ \A k \in DOMAIN journey.nodes :
          (\A i \in DOMAIN list : list[i].url # journey.nodes[k].url)
             => \A i \in DOMAIN list : list[i][field] >= journey.nodes[k][field]

\* C28: getRecentVisits(limit) and getMostVisited(limit) return at most limit
\* nodes, ordered by descending last-visit time and by descending visit count,
\* and no node they leave out ranks strictly ahead of one they return
C28_TopByRecencyAndCount ==
    \A limit \in JourneyLimits :
        /\ TopNodes(getRecentVisits(journey, limit), limit, "lastVisited")
        /\ TopNodes(getMostVisited(journey, limit), limit, "visitCount")

\* the latest and most visited node is not the first of the journey, and
\* both reads with limit 1 return it and leave the others out
C28_Witness ==
    /\ Len(journey.nodes) = 3
    /\ journey.nodes[1].lastVisited < journey.nodes[3].lastVisited
    /\ journey.nodes[2].lastVisited < journey.nodes[3].lastVisited
    /\ journey.nodes[1].visitCount < journey.nodes[3].visitCount
    /\ journey.nodes[2].visitCount < journey.nodes[3].visitCount
    /\ getRecentVisits(journey, 1) = <<journey.nodes[3]>>
    /\ getMostVisited(journey, 1) = <<journey.nodes[3]>>

----------------------------------------------------------------------------
(* Claims about the index's referential integrity and re-added pages *)

\* the docIds in the posting lists
PostedIds == UNION {Range(index[token]) : token \in DOMAIN index}

\* C39: whenever no addDocument is under way, documents and embeddings have
\* the same keys, and at any time every docId of a posting list is a key of
\* documents.
C39_KeysAgree ==
    /\ pending = {} => DOMAIN documents = EmbeddingIds(embeddings)
    /\ PostedIds \subseteq DOMAIN documents

\* C39 witness: two documents were added by two calls, no call is under
\* way and both are in posting lists.
C39_Witness ==
    /\ pending = {}
    /\ Len(calls) = MaxAdds
    /\ Cardinality(DOMAIN documents) = 2
    /\ PostedIds = DOMAIN documents
    /\ EmbeddingIds(embeddings) = DOMAIN documents

\* C40: with every addDocument over and saved, a document that a text search
\* returns has a token of the query in its current content or title.
C40_ReplacedTokensNoLongerMatch ==
    (IsSearch /\ response.searchType = "text" /\ Settled /\ ~response.error) =>
        \A docId \in DOMAIN stored.documents :
            Returned(docId) =>
                (Range(tokenize(response.query)) \cap TokensOf(stored.documents[docId])) # {}

----------------------------------------------------------------------------
(* Claims about the start of the background script and its answers *)

\* the handler answered the k-th indexing request
Answered(k) == response.kind = "index" /\ response.call = k

\* the k-th indexing request is being handled: its addDocument is under way
\* or its continuation has yet to run
UnderWay(k) == \E p \in pending : p.call = k

\* C34: the handling of an indexing request ends with an answer, a success
\* or an error: the step in which a request is turned down at once, and the
\* step after which a request is no longer under way, answer that request.
\* No later step answers a request whose handling is over.
C34_EveryRequestAnswered ==
    [][\A k \in 1..MaxAdds :
          (\/ UnderWay(k) /\ ~UnderWay(k)'
           \/ Len(calls) = k - 1 /\ Len(calls') = k /\ ~UnderWay(k)')
             => Answered(k)']_vars

\* C35: once the stored data has been loaded, every page whose indexing was
\* completed and whose visit was tracked is a document of the index in memory
\* and a node of the journey.
C35_NothingLostAtStartup ==
    startup = "ready" =>
        \A i \in DOMAIN visits :
            /\ normalizeUrl(visits[i]) \in DOMAIN documents
            /\ \E k \in DOMAIN journey.nodes : journey.nodes[k].url = visits[i]

----------------------------------------------------------------------------
(* Claims about the captures of a tab's pages *)

\* what the first k reports say of the scroll events and the cursor movement
\* of one page of one tab
RECURSIVE reportedSum(_, _, _, _, _)
reportedSum(log, k, tabId, page, field) ==
    IF k = 0 THEN 0
    ELSE reportedSum(log, k - 1, tabId, page, field)
         + (IF log[k].tab = tabId /\ log[k].page = page
            THEN (IF field = "scrollEvents" THEN log[k].request.scrollEvents
                  ELSE log[k].request.cursorMovement)
            ELSE 0)

\* the element paths the first k reports of one page of one tab name
reportedPaths(log, k, tabId, page) ==
    UNION {DOMAIN log[i].request.viewportData :
              i \in {j \in 1..k : log[j].tab = tabId /\ log[j].page = page}}

\* C32: what a capture holds of its tab's interaction is what the page that
\* is captured has reported: no more scroll events and cursor movement than
\* the reports of that page add up to, and no element path that no report of
\* that page names.
C32_CaptureHoldsOnlyItsPage ==
    \A i \in DOMAIN captureLog :
        LET e == captureLog[i]
            data == e.interactionData
        IN /\ data.scrollEvents
                 <= reportedSum(reportLog, e.reports, e.tab, e.page, "scrollEvents")
           /\ data.cursorMovement
                 <= reportedSum(reportLog, e.reports, e.tab, e.page, "cursorMovement")
           /\ DOMAIN data.viewportData
                 \subseteq reportedPaths(reportLog, e.reports, e.tab, e.page)

\* the tab shows its n-th page, which has reported complete, and
\* captureAndSavePage has not been called since
AwaitsCapture(tabId, n) ==
    /\ tabId \in DOMAIN tabInfo
    /\ tabInfo[tabId] = [page |-> n, closed |-> FALSE, complete |-> TRUE, captured |-> FALSE]

\* C36: when a page of the tab has reported complete, then captureAndSavePage
\* is called for the tab, unless the tab is closed or goes to another page
\* first.
C36_CompletedLoadIsCaptured ==
    \A n \in 1..MaxPages :
        AwaitsCapture(1, n) ~>
            (InfoOf(1).captured \/ InfoOf(1).closed \/ InfoOf(1).page > n)

\* C37: when every capture has come to its end, the stored list holds the
\* metadata of every page that was saved, once, and at most RecentLimit of
\* them.
C37_NoCaptureLost ==
    (\A run \in captureRuns : run.pc = "done") =>
        /\ Len(recentCaptures) <= RecentLimit
        /\ \A i \in DOMAIN captureLog :
              Cardinality({j \in DOMAIN recentCaptures :
                              recentCaptures[j] = captureLog[i].run}) = 1

\* C38: a tab that has been closed has no entry in pageInteractions and none
\* in pendingCaptures.
C38_ClosedTabLeavesNothing ==
    \A tabId \in DOMAIN tabInfo :
        tabInfo[tabId].closed =>
            /\ tabId \notin DOMAIN pageInteractions
            /\ tabId \notin DOMAIN pendingCaptures

====
